---- MODULE Spec2Model ----
(***************************************************************************)
(* The epoll and kqueue event managers of libmicrohttpd's examples         *)
(* (src/examples/epoll_event_manager.c, kqueue_event_manager.c) as one     *)
(* state machine.  The variable `backend` selects the adapter; the code    *)
(* the two files share (timeouts, the loop's skeleton, the orphan list)    *)
(* is modelled once.  A watch is identified with its address; every watch  *)
(* has its own descriptor, so the kernel's registration is kept per watch. *)
(***************************************************************************)
EXTENDS Integers, Sequences, FiniteSets, TLC

\* ------------------------------------------------------------------ bounds
MaxWatch == 2
MaxTimeout == 2
MaxReady == 2
MaxInject == 1

\* --------------------------------------------------------------- constants
NULL == 0
EVENT_SIZE == 10
DEFAULT_SLEEP_MS == 10000
KQUEUE_DEFAULT_SEC == 1

Watch == 1..MaxWatch
Timeout == 1..MaxTimeout

\* the workloads of the host: watches only, timeouts only, one of each
Workloads == {[watches |-> MaxWatch, timeouts |-> 0],
              [watches |-> 0, timeouts |-> MaxTimeout],
              [watches |-> 1, timeouts |-> 1]}

MHD_WatchEvent == SUBSET {"MHD_WATCH_IN", "MHD_WATCH_OUT"}

\* ------------------------------------------------------------------- time
TimeVal(s, u) == [tv_sec |-> s, tv_usec |-> u]

ZeroTime == TimeVal(0, 0)

\* the instant the clock shows when the reactor is created
StartTime == TimeVal(100, 0)

\* the absolute instants the host hands to timeout_new / timeout_update
Instants == {ZeroTime, TimeVal(100, 1500), TimeVal(122, 500000)}

\* the readings gettimeofday can give
Clock == {StartTime, TimeVal(111, 0)}

timerisset(tvp) == tvp.tv_sec # 0 \/ tvp.tv_usec # 0

timercmp_lt(a, b) ==
  IF a.tv_sec = b.tv_sec THEN a.tv_usec < b.tv_usec ELSE a.tv_sec < b.tv_sec

timersub(a, b) ==
  LET s == a.tv_sec - b.tv_sec
      u == a.tv_usec - b.tv_usec
  IN IF u < 0 THEN TimeVal(s - 1, u + 1000000) ELSE TimeVal(s, u)

\* ------------------------------------------------------------------ state
VARIABLES
  backend,   \* "epoll" or "kqueue": which of the two files is compiled
  em,        \* struct EventManager
  em_mem,    \* "alloc" | "freed": the EventManager's memory
  kernel,    \* the kernel object behind em.fd: [open, reg]
  watch,     \* struct MHD_Watch, by address
  timeout,   \* struct MHD_Timeout, by address
  now,       \* what gettimeofday returns
  pc,        \* where event_manager_loop stands
  frame,     \* the locals of event_manager_loop
  cb,        \* the callback the loop is inside of
  quota,     \* how many watches and timeouts the host creates
  injected,  \* how many backend change calls were made to fail
  loop_ret   \* what the last event_manager_loop call returned

vars == <<backend, quota, injected, em, em_mem, kernel, watch, timeout, now, pc, frame,
          cb, loop_ret>>

NoCb == [kind |-> "none", id |-> NULL, ev |-> "none"]

NoFrame ==
  [found |-> 0, tv |-> ZeroTime, ms_to_sleep |-> 0, ts |-> [tv_sec |-> 0, tv_nsec |-> 0],
   at |-> ZeroTime, ready |-> 0, errno |-> "none", events |-> <<>>, i |-> 0,
   half |-> "in", timeout |-> NULL, now |-> ZeroTime]

NewWatch ==
  [mem |-> "none", events |-> {}, enable_read |-> 0, enable_write |-> 0,
   deleted |-> 0, next |-> NULL]

NewTimeout ==
  [mem |-> "none", trigger_time |-> ZeroTime, next |-> NULL, previous |-> NULL]

\* event_manager_init succeeded: the lists are empty, the handle is open
Init ==
  /\ backend \in {"epoll", "kqueue"}
  /\ quota \in Workloads
  /\ injected = 0
  /\ em = [fd |-> 3, timeout_head |-> NULL, timeout_tail |-> NULL,
           orphaned_watches |-> NULL, stop |-> 0]
  /\ em_mem = "alloc"
  /\ kernel = [open |-> TRUE, reg |-> [w \in Watch |-> {}]]
  /\ watch = [w \in Watch |-> NewWatch]
  /\ timeout = [t \in Timeout |-> NewTimeout]
  /\ now = StartTime
  /\ pc = "idle"
  /\ frame = NoFrame
  /\ cb = NoCb
  /\ loop_ret = [valid |-> FALSE, value |-> 0]

\* the host may call the six operations and stop while the loop is not
\* running, or from inside a callback
HostMayCall ==
  /\ em_mem = "alloc"
  /\ pc # "crashed"
  /\ (pc = "idle" \/ cb.kind # "none")

LoopMayStep == em_mem = "alloc" /\ cb.kind = "none"

\* the lowest address malloc has not handed out yet, NULL once the host has
\* created as many records as its workload holds
FreshWatch ==
  LET used == {w \in Watch : watch[w].mem # "none"}
  IN IF Cardinality(used) < quota.watches THEN Cardinality(used) + 1 ELSE NULL

FreshTimeout ==
  LET used == {t \in Timeout : timeout[t].mem # "none"}
  IN IF Cardinality(used) < quota.timeouts THEN Cardinality(used) + 1 ELSE NULL

LiveWatch(w) == watch[w].mem = "alloc" /\ watch[w].deleted = 0

\* ------------------------------------------------------------ epoll watches
ToEpollEvents(events) ==
  (IF "MHD_WATCH_IN" \in events THEN {"EPOLLIN"} ELSE {}) \cup
  (IF "MHD_WATCH_OUT" \in events THEN {"EPOLLOUT"} ELSE {})

\* epoll_op with the update case taken as a removal
epoll_op_del(old, new) ==
  IF old = {} /\ new # {} THEN "EPOLL_CTL_ADD" ELSE "EPOLL_CTL_DEL"

\* epoll_op with the update case taken as an addition
epoll_op_add(old, new) ==
  IF new = {} THEN "EPOLL_CTL_DEL" ELSE "EPOLL_CTL_ADD"

\* the op watch_update picks from the recorded and the requested events
epoll_op(old, new) ==
  IF old = {} /\ new # {} THEN "EPOLL_CTL_ADD"
  ELSE IF old # {} /\ new = {} THEN "EPOLL_CTL_DEL"
  ELSE "EPOLL_CTL_MOD"

\* epoll_ctl(2) on the watch's descriptor; `inject` is a failure of the
\* call for a reason outside the model (EBADF, ENOMEM, EPERM)
epoll_ctl(k, epfd, op, w, events, inject) ==
  IF epfd < 0 \/ ~k.open \/ inject THEN [r |-> -1, kernel |-> k]
  ELSE IF op = "EPOLL_CTL_ADD"
    THEN IF k.reg[w] # {} THEN [r |-> -1, kernel |-> k]
         ELSE [r |-> 0, kernel |-> [k EXCEPT !.reg[w] = events]]
  ELSE IF op = "EPOLL_CTL_MOD"
    THEN IF k.reg[w] = {} THEN [r |-> -1, kernel |-> k]
         ELSE [r |-> 0, kernel |-> [k EXCEPT !.reg[w] = events]]
  ELSE IF k.reg[w] = {} THEN [r |-> -1, kernel |-> k]
       ELSE [r |-> 0, kernel |-> [k EXCEPT !.reg[w] = {}]]

\* the epoll_ctl calls watch_update of the epoll file makes: none when the
\* events are the recorded ones, one otherwise
epoll_changes(old, ev) ==
  IF ev = old THEN <<>> ELSE <<[op |-> epoll_op(old, ev), events |-> ev]>>

\* watch_update of the epoll file on the record wr of watch w
epoll_update(wr, k, epfd, w, events, inject) ==
  LET changes == epoll_changes(wr.events, ToEpollEvents(events))
  IN IF changes = <<>>
     THEN [watch |-> wr, kernel |-> k, r |-> 0]
     ELSE LET c == changes[1]
              res == epoll_ctl(k, epfd, c.op, w, c.events, inject)
          IN [watch |-> [wr EXCEPT !.events = c.events], kernel |-> res.kernel,
              r |-> res.r]

\* ----------------------------------------------------------- kqueue watches
\* kevent(2) with a change list and no event list: the changes are applied
\* in order, and the call stops at the first one that fails (failAt is a
\* failure injected at that position, 0 for none)
RECURSIVE kevent_changes(_, _, _, _, _)
kevent_changes(k, kq, changes, n, failAt) ==
  IF kq < 0 \/ ~k.open THEN [r |-> -1, kernel |-> k]
  ELSE IF n > Len(changes) THEN [r |-> 0, kernel |-> k]
  ELSE LET c == changes[n]
       IN IF n = failAt THEN [r |-> -1, kernel |-> k]
          ELSE IF c.flags = "EV_ADD"
            THEN kevent_changes([k EXCEPT !.reg[c.udata] = @ \cup {c.filter}],
                                kq, changes, n + 1, failAt)
          ELSE IF c.filter \notin k.reg[c.udata] THEN [r |-> -1, kernel |-> k]
          ELSE kevent_changes([k EXCEPT !.reg[c.udata] = @ \ {c.filter}],
                              kq, changes, n + 1, failAt)

EV_SET(w, filter, flags) == [udata |-> w, filter |-> filter, flags |-> flags]

\* the change set with a change for both filters whatever the record holds
kqueue_change_set_both(wr, w, events) ==
  <<EV_SET(w, "EVFILT_READ", IF "MHD_WATCH_IN" \in events THEN "EV_ADD" ELSE "EV_DELETE"),
    EV_SET(w, "EVFILT_WRITE", IF "MHD_WATCH_OUT" \in events THEN "EV_ADD" ELSE "EV_DELETE")>>

\* the change set watch_update of the kqueue file builds
kqueue_change_set(wr, w, events) ==
  LET enable_read == IF "MHD_WATCH_IN" \in events THEN 1 ELSE 0
      enable_write == IF "MHD_WATCH_OUT" \in events THEN 1 ELSE 0
      rd == IF enable_read # wr.enable_read
            THEN <<EV_SET(w, "EVFILT_READ", IF enable_read = 1 THEN "EV_ADD" ELSE "EV_DELETE")>>
            ELSE <<>>
      wrt == IF enable_write # wr.enable_write
             THEN <<EV_SET(w, "EVFILT_WRITE", IF enable_write = 1 THEN "EV_ADD" ELSE "EV_DELETE")>>
             ELSE <<>>
  IN rd \o wrt

\* watch_update of the kqueue file on the record wr of watch w
kqueue_update(wr, k, kq, w, events, failAt) ==
  LET changes == kqueue_change_set(wr, w, events)
      res == kevent_changes(k, kq, changes, 1, failAt)
  IN [watch |-> [wr EXCEPT !.enable_read = IF "MHD_WATCH_IN" \in events THEN 1 ELSE 0,
                           !.enable_write = IF "MHD_WATCH_OUT" \in events THEN 1 ELSE 0],
      kernel |-> res.kernel, r |-> res.r]

\* watch_update of the compiled file
update(wr, k, fd, w, events, fail) ==
  IF backend = "epoll" THEN epoll_update(wr, k, fd, w, events, fail > 0)
  ELSE kqueue_update(wr, k, fd, w, events, fail)

\* the interest mask a watch record holds, as the host's flags
RecordedMask(wr) ==
  IF backend = "epoll"
  THEN (IF "EPOLLIN" \in wr.events THEN {"MHD_WATCH_IN"} ELSE {}) \cup
       (IF "EPOLLOUT" \in wr.events THEN {"MHD_WATCH_OUT"} ELSE {})
  ELSE (IF wr.enable_read = 1 THEN {"MHD_WATCH_IN"} ELSE {}) \cup
       (IF wr.enable_write = 1 THEN {"MHD_WATCH_OUT"} ELSE {})

\* the interest mask the kernel holds for the watch's descriptor
RegisteredMask(w) ==
  (IF kernel.reg[w] \cap {"EPOLLIN", "EVFILT_READ"} # {} THEN {"MHD_WATCH_IN"} ELSE {}) \cup
  (IF kernel.reg[w] \cap {"EPOLLOUT", "EVFILT_WRITE"} # {} THEN {"MHD_WATCH_OUT"} ELSE {})

\* the failures that can be injected into one change call: none (0), or at
\* one of its at most two changes
Fail == IF injected < MaxInject THEN 0..2 ELSE {0}

Inject(fail) == IF fail > 0 THEN injected + 1 ELSE injected

\* watch_new(fd, events): a failed malloc returns NULL before anything is
\* touched and leaves the state as it is; otherwise the record is filled,
\* watch_update is called on it and the record is returned
watch_new_result(events, fail) ==
  update([NewWatch EXCEPT !.mem = "alloc"], kernel, em.fd, FreshWatch, events, fail)

watch_new_call(events, fail) ==
  /\ HostMayCall
  /\ FreshWatch # NULL
  /\ LET res == watch_new_result(events, fail)
     IN /\ watch' = [watch EXCEPT ![FreshWatch] = res.watch]
        /\ kernel' = res.kernel
  /\ injected' = Inject(fail)
  /\ UNCHANGED <<backend, quota, em, em_mem, timeout, now, pc, frame, cb, loop_ret>>

watch_new == \E events \in MHD_WatchEvent, fail \in Fail : watch_new_call(events, fail)

watch_update_call(w, events, fail) ==
  /\ HostMayCall
  /\ LiveWatch(w)
  /\ LET res == update(watch[w], kernel, em.fd, w, events, fail)
     IN /\ watch' = [watch EXCEPT ![w] = res.watch]
        /\ kernel' = res.kernel
  /\ injected' = Inject(fail)
  /\ UNCHANGED <<backend, quota, em, em_mem, timeout, now, pc, frame, cb, loop_ret>>

watch_update ==
  \E w \in Watch, events \in MHD_WatchEvent, fail \in Fail : watch_update_call(w, events, fail)

\* the DELETE changes watch_free of the kqueue file builds
kqueue_free_set(wr, w) ==
  (IF wr.enable_read = 1 THEN <<EV_SET(w, "EVFILT_READ", "EV_DELETE")>> ELSE <<>>) \o
  (IF wr.enable_write = 1 THEN <<EV_SET(w, "EVFILT_WRITE", "EV_DELETE")>> ELSE <<>>)

\* the deregistration watch_free attempts: skipped when nothing is recorded
deregister(wr, k, fd, w, fail) ==
  IF backend = "epoll"
  THEN IF wr.events # {}
       THEN epoll_ctl(k, fd, "EPOLL_CTL_DEL", w, {}, fail > 0)
       ELSE [r |-> 0, kernel |-> k]
  ELSE IF Len(kqueue_free_set(wr, w)) > 0
       THEN kevent_changes(k, fd, kqueue_free_set(wr, w), 1, fail)
       ELSE [r |-> 0, kernel |-> k]

\* the push on the orphan list with the link to the old head left out
orphan_unlinked(wt, head, w) == [wt EXCEPT ![w].deleted = 1]

\* the tombstone and the push on the orphan list
orphan(wt, head, w) ==
  [wt EXCEPT ![w].deleted = 1,
             ![w].next = IF head # NULL THEN head ELSE @]

watch_free_call(w, fail) ==
  /\ HostMayCall
  /\ LiveWatch(w)
  /\ kernel' = deregister(watch[w], kernel, em.fd, w, fail).kernel
  /\ watch' = orphan(watch, em.orphaned_watches, w)
  /\ em' = [em EXCEPT !.orphaned_watches = w]
  /\ injected' = Inject(fail)
  /\ UNCHANGED <<backend, quota, em_mem, timeout, now, pc, frame, cb, loop_ret>>

watch_free == \E w \in Watch, fail \in Fail : watch_free_call(w, fail)

\* ---------------------------------------------------------------- timeouts
LiveTimeout(t) == timeout[t].mem = "alloc"

\* the list insert of timeout_new: the old tail's next is left as it is
timeout_link(tt, e, t, tv) ==
  IF e.timeout_head = NULL
  THEN [timeout |-> [tt EXCEPT ![t] = [mem |-> "alloc", trigger_time |-> tv,
                                       next |-> NULL, previous |-> NULL]],
        em |-> [e EXCEPT !.timeout_head = t, !.timeout_tail = t]]
  ELSE [timeout |-> [tt EXCEPT ![t] = [mem |-> "alloc", trigger_time |-> tv,
                                       next |-> NULL, previous |-> e.timeout_tail]],
        em |-> [e EXCEPT !.timeout_tail = t]]

timeout_new_call(tv) ==
  /\ HostMayCall
  /\ FreshTimeout # NULL
  /\ LET res == timeout_link(timeout, em, FreshTimeout, tv)
     IN /\ timeout' = res.timeout
        /\ em' = res.em
  /\ UNCHANGED <<backend, quota, injected, em_mem, kernel, watch, now, pc, frame, cb, loop_ret>>

timeout_new == \E tv \in Instants : timeout_new_call(tv)

\* a store through pointer p faults when p is NULL
Faults(tt, p) == p = NULL \/ tt[p].mem # "alloc"

\* the unlink of timeout_free: [timeout, em, fault]
timeout_unlink(tt, e, t) ==
  IF e.timeout_head = t /\ e.timeout_tail = t
  THEN [timeout |-> tt, fault |-> FALSE,
        em |-> [e EXCEPT !.timeout_head = NULL, !.timeout_tail = NULL]]
  ELSE IF e.timeout_head = t
  THEN LET e1 == [e EXCEPT !.timeout_head = tt[t].next]
       IN IF Faults(tt, tt[t].next)
          THEN [timeout |-> tt, fault |-> TRUE, em |-> e1]
          ELSE [timeout |-> [tt EXCEPT ![tt[t].next].previous = NULL],
                fault |-> FALSE, em |-> e1]
  ELSE IF e.timeout_tail = t
  THEN IF Faults(tt, tt[t].previous)
       THEN [timeout |-> tt, fault |-> TRUE, em |-> e]
       ELSE [timeout |-> [tt EXCEPT ![tt[t].previous].next = NULL],
             fault |-> FALSE, em |-> [e EXCEPT !.timeout_tail = tt[t].previous]]
  ELSE IF Faults(tt, tt[t].previous)
       THEN [timeout |-> tt, fault |-> TRUE, em |-> e]
       ELSE LET t1 == [tt EXCEPT ![tt[t].previous].next = tt[t].next]
            IN IF Faults(tt, tt[t].next)
               THEN [timeout |-> t1, fault |-> TRUE, em |-> e]
               ELSE [timeout |-> [t1 EXCEPT ![tt[t].next].previous = tt[t].previous],
                     fault |-> FALSE, em |-> e]

timeout_free_call(t) ==
  /\ HostMayCall
  /\ LiveTimeout(t)
  /\ LET res == timeout_unlink(timeout, em, t)
     IN /\ em' = res.em
        /\ IF res.fault
           THEN /\ timeout' = res.timeout
                /\ pc' = "crashed"
           ELSE /\ timeout' = [res.timeout EXCEPT ![t].mem = "freed"]
                /\ pc' = pc
  /\ UNCHANGED <<backend, quota, injected, em_mem, kernel, watch, now, frame, cb, loop_ret>>

timeout_free == \E t \in Timeout : timeout_free_call(t)

\* the tv argument of timeout_update: <<>> for a NULL pointer
TvArgs == {<<>>} \cup {<<i>> : i \in Instants}

timeout_update_call(t, tv) ==
  /\ HostMayCall
  /\ LiveTimeout(t)
  /\ timeout' = [timeout EXCEPT ![t].trigger_time = IF tv # <<>> THEN tv[1] ELSE ZeroTime]
  /\ UNCHANGED <<backend, quota, injected, em, em_mem, kernel, watch, now, pc, frame, cb, loop_ret>>

timeout_update == \E t \in Timeout, tv \in TvArgs : timeout_update_call(t, tv)

\* ------------------------------------------------------------- control API
event_manager_stop ==
  /\ HostMayCall
  /\ em' = [em EXCEPT !.stop = 1]
  /\ UNCHANGED <<backend, quota, injected, em_mem, kernel, watch, timeout, now, pc, frame, cb,
                 loop_ret>>

event_manager_cleanup ==
  /\ em_mem = "alloc"
  /\ pc = "idle"
  /\ em_mem' = "freed"
  /\ UNCHANGED <<backend, quota, injected, em, kernel, watch, timeout, now, pc, frame, cb,
                 loop_ret>>

\* the clock moves on while the process is blocked in the wait or outside
\* the loop
tick ==
  /\ em_mem = "alloc"
  /\ pc \in {"idle", "wait"}
  /\ \E n \in Clock : timercmp_lt(now, n) /\ now' = n
  /\ UNCHANGED <<backend, quota, injected, em, em_mem, kernel, watch, timeout, pc, frame, cb,
                 loop_ret>>


\* ---------------------------------------------------------------- the loop
\* the entry check left out
handle_never_invalid(fd) == FALSE

\* the entry check of event_manager_loop on the stored handle
handle_invalid(fd) == fd < 0

event_manager_loop ==
  /\ LoopMayStep
  /\ pc = "idle"
  /\ em' = [em EXCEPT !.stop = 0]
  /\ IF handle_invalid(em.fd)
     THEN /\ loop_ret' = [valid |-> TRUE, value |-> -1]
          /\ pc' = "idle"
     ELSE /\ loop_ret' = [valid |-> FALSE, value |-> 0]
          /\ pc' = "top"
  /\ frame' = NoFrame
  /\ UNCHANGED <<backend, quota, injected, em_mem, kernel, watch, timeout, now, cb>>

\* the loop condition with the stop flag ignored
loop_continues_always(stop) == TRUE

\* while (!em->stop)
loop_continues(stop) == stop = 0

\* while (!em->stop) is left: close the handle, return 0
loop_exit ==
  /\ LoopMayStep
  /\ pc = "top"
  /\ ~loop_continues(em.stop)
  /\ kernel' = [open |-> FALSE, reg |-> [w \in Watch |-> {}]]
  /\ em' = [em EXCEPT !.fd = -1]
  /\ loop_ret' = [valid |-> TRUE, value |-> 0]
  /\ pc' = "idle"
  /\ frame' = NoFrame
  /\ UNCHANGED <<backend, quota, injected, em_mem, watch, timeout, now, cb>>

\* the next-deadline scan: follow next from t, keeping the smallest set
\* trigger_time seen; fuel bounds the walk
RECURSIVE scan(_, _, _, _, _)
scan(tt, t, found, tv, fuel) ==
  IF t = NULL \/ fuel = 0 THEN [found |-> found, tv |-> tv]
  ELSE IF timerisset(tt[t].trigger_time) /\
          (found = 0 \/ timercmp_lt(tt[t].trigger_time, tv))
       THEN scan(tt, tt[t].next, 1, tt[t].trigger_time, fuel - 1)
       ELSE scan(tt, tt[t].next, found, tv, fuel - 1)

\* ms_to_sleep of the epoll file
epoll_budget(found, tv, n) ==
  IF found = 0 THEN DEFAULT_SLEEP_MS
  ELSE IF timercmp_lt(tv, n) THEN 0
  ELSE LET remaining == timersub(tv, n)
       IN (remaining.tv_sec * 1000) + (remaining.tv_usec \div 1000)

\* ts of the kqueue file
kqueue_budget(found, tv, n) ==
  IF found = 0 THEN [tv_sec |-> KQUEUE_DEFAULT_SEC, tv_nsec |-> 0]
  ELSE IF timercmp_lt(tv, n) THEN [tv_sec |-> 0, tv_nsec |-> 0]
  ELSE LET remaining == timersub(tv, n)
       IN [tv_sec |-> remaining.tv_sec, tv_nsec |-> remaining.tv_usec * 1000]

\* the top of an iteration up to the call of the backend wait
loop_scan ==
  /\ LoopMayStep
  /\ pc = "top"
  /\ loop_continues(em.stop)
  /\ LET s == scan(timeout, em.timeout_head, 0, ZeroTime, MaxTimeout + 1)
     IN frame' = [NoFrame EXCEPT
                    !.found = s.found,
                    !.tv = s.tv,
                    !.at = now,
                    !.ms_to_sleep = IF backend = "epoll"
                                    THEN epoll_budget(s.found, s.tv, now) ELSE 0,
                    !.ts = IF backend = "kqueue"
                           THEN kqueue_budget(s.found, s.tv, now) ELSE @]
  /\ pc' = "wait"
  /\ UNCHANGED <<backend, quota, injected, em, em_mem, kernel, watch, timeout, now, cb,
                 loop_ret>>

\* the budget handed to the backend wait, in microseconds
BudgetUsec ==
  IF backend = "epoll" THEN frame.ms_to_sleep * 1000
  ELSE frame.ts.tv_sec * 1000000 + frame.ts.tv_nsec \div 1000

\* the time spent in the backend wait so far, in microseconds
WaitedUsec ==
  LET d == timersub(now, frame.at) IN d.tv_sec * 1000000 + d.tv_usec

\* what the kernel can report: the registered descriptors, epoll with any
\* non-empty part of the registered events, kqueue one event per filter
Reportable ==
  IF backend = "epoll"
  THEN UNION {{[ptr |-> w, events |-> s] : s \in (SUBSET kernel.reg[w]) \ {{}}} : w \in Watch}
  ELSE UNION {{[ptr |-> w, filter |-> f, error |-> e] : f \in kernel.reg[w], e \in BOOLEAN} : w \in Watch}

EventKey(e) == IF backend = "epoll" THEN <<e.ptr>> ELSE <<e.ptr, e.filter>>

\* the event arrays one wait can fill
EventArrays ==
  LET most == IF MaxReady < EVENT_SIZE THEN MaxReady ELSE EVENT_SIZE
  IN {q \in UNION {[1..n -> Reportable] : n \in 1..most} :
        \A a, b \in DOMAIN q : a # b => EventKey(q[a]) # EventKey(q[b])}

\* the branch on ready with the sweep taken for every count
after_wait_sweep(ready) == "sweep"

\* if (ready == 0) sweep the timeouts, otherwise dispatch the events
after_wait(ready) == IF ready = 0 THEN "sweep" ELSE "dispatch"

\* the wait runs out: ready = 0, the sweep starts at the head
wait_timeout ==
  /\ LoopMayStep
  /\ pc = "wait"
  /\ WaitedUsec >= BudgetUsec
  /\ frame' = [NoFrame EXCEPT !.ready = 0, !.now = now, !.timeout = em.timeout_head]
  /\ pc' = after_wait(0)
  /\ UNCHANGED <<backend, quota, injected, em, em_mem, kernel, watch, timeout, now, cb,
                 loop_ret>>

\* the errno test with every failure taken as fatal
never_eintr(errno) == FALSE

\* errno == EINTR
is_eintr(errno) == errno = "EINTR"

\* the wait returns -1 with this errno: continue on EINTR, return -1 otherwise
wait_fails(errno) ==
  /\ LoopMayStep
  /\ pc = "wait"
  /\ frame' = [NoFrame EXCEPT !.ready = -1, !.errno = errno]
  /\ IF is_eintr(errno)
     THEN /\ pc' = "top"
          /\ UNCHANGED loop_ret
     ELSE /\ loop_ret' = [valid |-> TRUE, value |-> -1]
          /\ pc' = "idle"
  /\ UNCHANGED <<backend, quota, injected, em, em_mem, kernel, watch, timeout, now, cb>>

\* the wait is interrupted by a signal
wait_eintr == wait_fails("EINTR")

\* the wait fails with another errno
wait_error == wait_fails("EBADF")

\* the wait returns events
wait_events ==
  /\ LoopMayStep
  /\ pc = "wait"
  /\ \E q \in EventArrays :
       /\ frame' = [NoFrame EXCEPT !.ready = Len(q), !.events = q, !.i = 0, !.half = "in"]
       /\ pc' = after_wait(Len(q))
  /\ UNCHANGED <<backend, quota, injected, em, em_mem, kernel, watch, timeout, now, cb,
                 loop_ret>>

\* the sweep cursor left on the timeout it fires
sweep_stay(tt, t) == t

\* timeout = timeout->next, taken before the callback is called
sweep_next(tt, t) == tt[t].next

\* one step of the firing sweep
loop_sweep ==
  /\ LoopMayStep
  /\ pc = "sweep"
  /\ LET t == frame.timeout
     IN IF t = NULL
        THEN /\ pc' = "reap"
             /\ UNCHANGED <<timeout, frame, cb>>
        ELSE IF timeout[t].mem # "alloc"
        THEN \* the sweep reads a released record
             /\ pc' = "crashed"
             /\ UNCHANGED <<timeout, frame, cb>>
        ELSE IF timercmp_lt(timeout[t].trigger_time, frame.now)
        THEN /\ frame' = [frame EXCEPT !.timeout = sweep_next(timeout, t)]
             /\ timeout' = [timeout EXCEPT ![t].trigger_time = ZeroTime]
             /\ cb' = [kind |-> "timeout", id |-> t, ev |-> "none"]
             /\ UNCHANGED <<pc>>
        ELSE /\ frame' = [frame EXCEPT !.timeout = timeout[t].next]
             /\ UNCHANGED <<timeout, cb, pc>>
  /\ UNCHANGED <<backend, quota, injected, em, em_mem, kernel, watch, now, loop_ret>>

\* whether event e carries the filter of this half of the dispatch
Triggered(e, half) ==
  IF backend = "epoll"
  THEN (IF half = "in" THEN "EPOLLIN" ELSE "EPOLLOUT") \in e.events
  ELSE e.filter = (IF half = "in" THEN "EVFILT_READ" ELSE "EVFILT_WRITE")

\* the flag handed to the callback with the two tests exchanged
HalfEvent_swapped(half) == IF half = "in" THEN "MHD_WATCH_OUT" ELSE "MHD_WATCH_IN"

\* the flag the callback is called with in this half
HalfEvent(half) == IF half = "in" THEN "MHD_WATCH_IN" ELSE "MHD_WATCH_OUT"

\* frame after this half of events[i]; frame.events holds the part of the
\* array from index i on
NextHalf(f) ==
  IF f.half = "in" THEN [f EXCEPT !.half = "out"]
  ELSE [f EXCEPT !.half = "in", !.i = @ + 1, !.events = Tail(@)]

\* one step of the dispatch: one of the two tests on events[i]
loop_dispatch ==
  /\ LoopMayStep
  /\ pc = "dispatch"
  /\ IF frame.i >= frame.ready
     THEN /\ pc' = "reap"
          /\ UNCHANGED <<frame, cb>>
     ELSE LET e == Head(frame.events)
              w == e.ptr
          IN IF backend = "kqueue" /\ e.error
             THEN /\ frame' = [frame EXCEPT !.i = @ + 1, !.half = "in", !.events = Tail(@)]
                  /\ UNCHANGED <<pc, cb>>
             ELSE IF watch[w].mem = "alloc"
             THEN /\ frame' = NextHalf(frame)
                  /\ cb' = IF watch[w].deleted = 0 /\ Triggered(e, frame.half)
                           THEN [kind |-> "watch", id |-> w, ev |-> HalfEvent(frame.half)]
                           ELSE NoCb
                  /\ UNCHANGED <<pc>>
             ELSE \* the record was released: what deleted reads is undefined
                  /\ \E deleted \in {0, 1}, fault \in BOOLEAN :
                       IF fault
                       THEN /\ pc' = "crashed"
                            /\ UNCHANGED <<frame, cb>>
                       ELSE /\ frame' = NextHalf(frame)
                            /\ cb' = IF deleted = 0 /\ Triggered(e, frame.half)
                                     THEN [kind |-> "watch", id |-> w, ev |-> HalfEvent(frame.half)]
                                     ELSE NoCb
                            /\ pc' = pc
  /\ UNCHANGED <<backend, quota, injected, em, em_mem, kernel, watch, timeout, now, loop_ret>>

\* the watches on the orphan list, following next from w
RECURSIVE orphans(_, _, _)
orphans(wt, w, fuel) ==
  IF w = NULL \/ fuel = 0 THEN {}
  ELSE {w} \cup orphans(wt, wt[w].next, fuel - 1)

\* the record of a tombstoned watch the reap has not passed to free()
NotReleased == [NewWatch EXCEPT !.mem = "alloc", !.deleted = 1]

\* a record after free(): what it held is no longer defined
Released == [NewWatch EXCEPT !.mem = "freed"]

\* the end of an iteration: release the orphan list
loop_reap ==
  /\ LoopMayStep
  /\ pc = "reap"
  /\ LET dead == orphans(watch, em.orphaned_watches, MaxWatch)
     IN watch' = [w \in Watch |-> IF w \in dead THEN Released ELSE watch[w]]
  /\ em' = [em EXCEPT !.orphaned_watches = NULL]
  /\ pc' = "top"
  /\ frame' = NoFrame
  /\ UNCHANGED <<backend, quota, injected, em_mem, kernel, timeout, now, cb, loop_ret>>

\* the callback the loop is inside of returns
callback_return ==
  /\ em_mem = "alloc"
  /\ pc # "crashed"
  /\ cb.kind # "none"
  /\ cb' = NoCb
  /\ UNCHANGED <<backend, quota, injected, em, em_mem, kernel, watch, timeout, now, pc, frame,
                 loop_ret>>

Next ==
  \/ watch_new
  \/ watch_update
  \/ watch_free
  \/ timeout_new
  \/ timeout_update
  \/ timeout_free
  \/ event_manager_stop
  \/ event_manager_cleanup
  \/ tick
  \/ event_manager_loop
  \/ loop_exit
  \/ loop_scan
  \/ wait_timeout
  \/ wait_eintr
  \/ wait_error
  \/ wait_events
  \/ loop_sweep
  \/ loop_dispatch
  \/ loop_reap
  \/ callback_return

Spec == Init /\ [][Next]_vars


\* ================================================================== claims
\* the event the dispatch is about to look at, when it is about to
AtEvent ==
  /\ pc = "dispatch"
  /\ cb.kind = "none"
  /\ frame.i < frame.ready
  /\ ~(backend = "kqueue" /\ Head(frame.events).error)

\* C1: the dispatch never reads a watch whose memory was released, and never
\* invokes the callback of a watch that watch_free was called on.
C1_NoDispatchAfterFree ==
  [][AtEvent =>
       LET w == Head(frame.events).ptr
       IN /\ watch[w].mem = "alloc"
          /\ (cb'.kind = "watch" => watch[w].deleted = 0)]_vars

\* C2: the loop invokes a timeout's callback only when its trigger instant
\* is set (not the zero sentinel), so only once per arming.
C2_FiresOncePerArming ==
  [][(cb.kind = "none" /\ cb'.kind = "timeout") =>
       timerisset(timeout[cb'.id].trigger_time)]_vars

\* an iteration of the loop ends: by the reap, by continue, or by return -1
IterationEnds == pc \in {"wait", "reap"} /\ pc' \in {"top", "idle"}

\* C3: after any iteration of the loop the orphan list is empty and no
\* tombstoned watch remains.
C3_ReapSafety ==
  [][IterationEnds =>
       /\ em'.orphaned_watches = NULL
       /\ \A w \in Watch : ~(watch'[w].mem = "alloc" /\ watch'[w].deleted = 1)]_vars

\* C4: while no backend change call has failed and the backend handle is
\* open, the mask registered for a live watch's descriptor is the mask the
\* watch records.
C4_MaskParity ==
  (injected = 0 /\ em.fd >= 0) =>
    \A w \in Watch : LiveWatch(w) => RegisteredMask(w) = RecordedMask(watch[w])

C4_Witness ==
  /\ injected = 0
  /\ em.fd >= 0
  /\ cb.kind = "watch"
  /\ \E w \in Watch : /\ LiveWatch(w)
                      /\ RecordedMask(watch[w]) = {"MHD_WATCH_OUT"}
                      /\ RegisteredMask(w) = {"MHD_WATCH_OUT"}
  /\ \E w \in Watch : watch[w].mem = "alloc" /\ watch[w].deleted = 1

\* C5: a watch_update whose backend change call fails leaves the recorded
\* mask at its old value.
C5_UpdateFailureAtomic ==
  [][\A w \in Watch, events \in MHD_WatchEvent, fail \in 0..2 :
       (/\ watch_update_call(w, events, fail)
        /\ update(watch[w], kernel, em.fd, w, events, fail).r = -1)
       => RecordedMask(watch'[w]) = RecordedMask(watch[w])]_vars

\* C6: a watch_new whose backend change call fails creates no watch (the
\* host gets NULL and no record stays allocated).
C6_NewFailureReturnsNil ==
  [][\A events \in MHD_WatchEvent, fail \in 0..2 :
       (/\ watch_new_call(events, fail)
        /\ watch_new_result(events, fail).r = -1)
       => \A w \in Watch : watch'[w].mem = watch[w].mem]_vars

\* the timeouts the loop visits: those on the chain of next from the head
RECURSIVE chain(_, _, _)
chain(tt, t, fuel) ==
  IF t = NULL \/ fuel = 0 THEN {} ELSE {t} \cup chain(tt, tt[t].next, fuel - 1)

Armed == {t \in Timeout : LiveTimeout(t) /\ timerisset(timeout[t].trigger_time)}

\* C7: every live timeout is visited by the loop, and the deadline the scan
\* finds is the smallest set trigger instant over all live timeouts.
C7_EveryLiveTimeoutVisited ==
  pc = "wait" =>
    /\ {t \in Timeout : LiveTimeout(t)} \subseteq chain(timeout, em.timeout_head, MaxTimeout + 1)
    /\ (frame.found = 1) = (Armed # {})
    /\ Armed # {} => /\ \E t \in Armed : timeout[t].trigger_time = frame.tv
                     /\ \A t \in Armed : ~timercmp_lt(timeout[t].trigger_time, frame.tv)

\* the budget handed to the backend wait, in milliseconds
BudgetMs ==
  IF backend = "epoll" THEN frame.ms_to_sleep
  ELSE frame.ts.tv_sec * 1000 + frame.ts.tv_nsec \div 1000000

Usec(tv) == tv.tv_sec * 1000000 + tv.tv_usec

Min(a, b) == IF a < b THEN a ELSE b

\* C8: with no timeout armed the budget is 10000 ms; with the earliest armed
\* deadline t not before now n it is min(10000, floor((t - n) * 1000)) ms;
\* with t before now it is 0.
C8_WaitBudget ==
  pc = "wait" =>
    IF Armed = {} THEN BudgetMs = 10000
    ELSE LET t == CHOOSE t \in Armed :
                    \A u \in Armed : Usec(timeout[t].trigger_time) <= Usec(timeout[u].trigger_time)
             d == Usec(timeout[t].trigger_time) - Usec(frame.at)
         IN IF d < 0 THEN BudgetMs = 0 ELSE BudgetMs = Min(10000, d \div 1000)

\* C9: when the backend wait fails with an error other than EINTR the loop
\* returns -1 with the backend handle closed.
C9_FatalErrorClosesHandle ==
  [][(pc = "wait" /\ pc' = "idle") =>
       /\ loop_ret' = [valid |-> TRUE, value |-> -1]
       /\ ~kernel'.open
       /\ em'.fd = -1]_vars

ReturnedZero == pc = "idle" /\ loop_ret = [valid |-> TRUE, value |-> 0]

\* C10 as stated: after loop has returned 0, a later call of loop runs again.
C10_ReentryRuns ==
  [][(ReturnedZero /\ event_manager_loop) => pc' = "top"]_vars

\* C10 as amended: once loop has returned 0 the handle is closed and nothing
\* is registered in the backend any more, and every later call of loop
\* returns -1 at once: no wait on the backend, no callback.
C10_ReentryFails ==
  /\ [](ReturnedZero => em.fd = -1)
  /\ [](em.fd = -1 => ~kernel.open /\ \A w \in Watch : kernel.reg[w] = {})
  /\ [][(em.fd = -1 /\ event_manager_loop) =>
          /\ pc' = "idle"
          /\ loop_ret' = [valid |-> TRUE, value |-> -1]
          /\ cb' = NoCb
          /\ UNCHANGED <<kernel, watch, timeout>>]_vars

C10_Witness ==
  /\ pc = "idle"
  /\ loop_ret = [valid |-> TRUE, value |-> -1]
  /\ em.fd = -1
  /\ \E w \in Watch : LiveWatch(w) /\ RecordedMask(watch[w]) # {}

\* the loop is between its entry and its return
Running == pc \notin {"idle", "crashed"}

\* C11: once stop is set inside a callback of a running loop, the flag stays
\* set, the dispatch and the sweep are run to their end, no backend wait is
\* started, and the loop returns from the top of the next iteration, after
\* the reap, with 0 and the handle closed.  The flag has two values, so a
\* repeated stop stores the value it already holds.
C11_StopExitsOnce ==
  /\ [](em.stop \in {0, 1})
  /\ [](pc = "wait" => em.stop = 0)
  /\ [][(Running /\ em.stop = 1) =>
          /\ em'.stop = 1
          /\ pc' # "wait"
          /\ (pc = "dispatch" /\ pc' = "reap") => frame.i >= frame.ready
          /\ (pc = "sweep" /\ pc' = "reap") => frame.timeout = NULL
          /\ pc' = "idle" => /\ pc = "top"
                             /\ em.orphaned_watches = NULL
                             /\ loop_ret' = [valid |-> TRUE, value |-> 0]
                             /\ ~kernel'.open
                             /\ em'.fd = -1]_vars

C11_Witness ==
  /\ pc = "dispatch"
  /\ cb.kind = "watch"
  /\ em.stop = 1
  /\ frame.i = 0
  /\ Len(frame.events) = 2

\* C12: the sweep moves past a timeout before it calls its callback and
\* never comes back to it; the trigger is reset in the step that starts the
\* callback and by no other step of the loop, so an instant the callback
\* stores stays; the timeout stays the head of the list while it lives, the
\* sweep of a later iteration with no events starts at the head, and it
\* fires the timeout it stands on when its instant is before now.
C12_RearmFiresNextTime ==
  /\ [][(pc = "sweep" /\ cb.kind = "none" /\ cb'.kind = "timeout") =>
          /\ cb'.id = frame.timeout
          /\ timeout'[cb'.id].trigger_time = ZeroTime
          /\ cb'.id \notin chain(timeout', frame'.timeout, MaxTimeout + 1)]_vars
  /\ [][(pc = "sweep" /\ pc' = "sweep") =>
          chain(timeout', frame'.timeout, MaxTimeout + 1)
            \subseteq chain(timeout, frame.timeout, MaxTimeout + 1)]_vars
  /\ [][(cb.kind = "timeout" /\ cb'.kind = "none") => timeout' = timeout]_vars
  /\ [][(Running /\ cb.kind = "none") =>
          \A t \in Timeout : timeout'[t] # timeout[t] => cb' = [kind |-> "timeout", id |-> t, ev |-> "none"]]_vars
  /\ []((cb.kind = "timeout" /\ pc # "crashed" /\ LiveTimeout(cb.id)) => cb.id = em.timeout_head)
  /\ [][\A t \in Timeout :
          (em.timeout_head = t /\ timeout'[t].mem = "alloc" /\ pc' # "crashed")
          => em'.timeout_head = t]_vars
  /\ [][(pc = "wait" /\ pc' = "sweep") =>
          frame'.timeout = em.timeout_head /\ frame'.now = now]_vars
  /\ [][(/\ pc = "sweep" /\ cb.kind = "none" /\ frame.timeout # NULL
         /\ LiveTimeout(frame.timeout)
         /\ timercmp_lt(timeout[frame.timeout].trigger_time, frame.now))
        => cb' = [kind |-> "timeout", id |-> frame.timeout, ev |-> "none"]]_vars

\* inside its own callback a timeout holds an instant that is already past
C12_Witness ==
  /\ pc = "sweep"
  /\ cb.kind = "timeout"
  /\ LiveTimeout(cb.id)
  /\ timerisset(timeout[cb.id].trigger_time)
  /\ timercmp_lt(timeout[cb.id].trigger_time, frame.now)
  /\ frame.timeout = NULL

\* C13: a timeout callback is started only by the sweep, and the sweep runs
\* only in an iteration whose wait returned 0; after a wait that returned
\* events the loop dispatches and reaps, after a failed wait it continues
\* or returns.
C13_SweepOnlyWhenIdle ==
  /\ [](pc = "sweep" => frame.ready = 0)
  /\ [](pc = "dispatch" => frame.ready > 0)
  /\ [][(cb.kind # "timeout" /\ cb'.kind = "timeout") => (pc = "sweep" /\ frame.ready = 0)]_vars
  /\ [][(pc = "wait" /\ frame'.ready # 0) => (pc' # "sweep" /\ cb' = NoCb)]_vars
  /\ [][(pc = "dispatch" /\ cb.kind = "none") => pc' \in {"dispatch", "reap", "crashed"}]_vars

\* the dispatch of a wait that returned events is over while the head of
\* the timeout list is overdue
C13_Witness ==
  /\ pc = "reap"
  /\ frame.ready > 0
  /\ em.timeout_head # NULL
  /\ LiveTimeout(em.timeout_head)
  /\ timerisset(timeout[em.timeout_head].trigger_time)
  /\ timercmp_lt(timeout[em.timeout_head].trigger_time, now)

\* what an event of the wait result reports
ReportsRead(e) ==
  IF backend = "epoll" THEN "EPOLLIN" \in e.events ELSE (~e.error /\ e.filter = "EVFILT_READ")

ReportsWrite(e) ==
  IF backend = "epoll" THEN "EPOLLOUT" \in e.events ELSE (~e.error /\ e.filter = "EVFILT_WRITE")

\* AtEvent with the watch of the event still allocated
AtLiveEvent == AtEvent /\ watch[Head(frame.events).ptr].mem = "alloc"

C15_InterruptedWaitContinues ==
  /\ [][(pc = "wait" /\ frame'.ready = -1 /\ frame'.errno = "EINTR") =>
          /\ pc' = "top"
          /\ cb' = NoCb
          /\ loop_ret'.valid = FALSE
          /\ UNCHANGED <<em, kernel, watch, timeout>>]_vars
  /\ [][pc = "top" =>
          /\ cb' = NoCb
          /\ \/ pc' = "wait" /\ loop_ret'.valid = FALSE
             \/ pc' = "idle" /\ loop_ret' = [valid |-> TRUE, value |-> 0]]_vars

C15_Witness ==
  /\ pc = "top"
  /\ frame.ready = -1
  /\ frame.errno = "EINTR"
  /\ \E w \in Watch : LiveWatch(w) /\ RegisteredMask(w) # {}

\* C16: watch_free of a live watch sets deleted, keeps the record allocated
\* and adds it to the orphan list, which keeps what it held, whether the
\* deregistration succeeds, fails or is skipped; nothing is reported to the
\* caller and no other watch is touched.
C16_FreeAlwaysTombstones ==
  [][\A w \in Watch, fail \in 0..2 :
       watch_free_call(w, fail) =>
         /\ watch'[w].deleted = 1
         /\ watch'[w].mem = "alloc"
         /\ orphans(watch', em'.orphaned_watches, MaxWatch)
              = orphans(watch, em.orphaned_watches, MaxWatch) \cup {w}
         /\ \A v \in Watch \ {w} : watch'[v] = watch[v]
         /\ UNCHANGED <<pc, cb, loop_ret>>]_vars

\* two watches on the orphan list, the later one still registered because
\* its deregistration failed
C16_Witness ==
  /\ kernel.open
  /\ \E w \in Watch :
       /\ em.orphaned_watches = w
       /\ watch[w].mem = "alloc"
       /\ watch[w].deleted = 1
       /\ watch[w].next # NULL
       /\ kernel.reg[w] # {}

\* the backend is reachable and holds for w what the record of w says
InStep(w) == kernel.open /\ em.fd >= 0 /\ RegisteredMask(w) = RecordedMask(watch[w])

\* C17: watch_update of the epoll file issues no epoll_ctl when the
\* requested mask is the recorded one and exactly one otherwise: ADD from an
\* empty mask, DEL to an empty mask, MOD between two non-empty masks; the
\* call carries the requested events, and when it succeeds the kernel holds
\* them.
C17_EpollEncoding ==
  [][\A w \in Watch, events \in MHD_WatchEvent, fail \in 0..2 :
       (backend = "epoll" /\ watch_update_call(w, events, fail)) =>
         LET old == RecordedMask(watch[w])
             calls == epoll_changes(watch[w].events, ToEpollEvents(events))
         IN /\ Len(calls) = IF old = events THEN 0 ELSE 1
            /\ old = events => kernel' = kernel
            /\ old # events =>
                 /\ calls[1].op = IF old = {} THEN "EPOLL_CTL_ADD"
                                  ELSE IF events = {} THEN "EPOLL_CTL_DEL"
                                  ELSE "EPOLL_CTL_MOD"
                 /\ calls[1].events = ToEpollEvents(events)
            /\ (fail = 0 /\ InStep(w)) => kernel'.reg[w] = ToEpollEvents(events)]_vars

\* epoll: inside its OUT callback a watch is recorded and registered for IN
\* alone, so a watch_update between two non-empty masks has been applied
C17_Witness ==
  /\ backend = "epoll"
  /\ injected = 0
  /\ cb.kind = "watch"
  /\ cb.ev = "MHD_WATCH_OUT"
  /\ LiveWatch(cb.id)
  /\ watch[cb.id].events = {"EPOLLIN"}
  /\ kernel.reg[cb.id] = {"EPOLLIN"}

\* the change C18 expects for one filter: none when the bit stays as it is
FilterChange(w, old, new, bit, filter) ==
  IF (bit \in old) = (bit \in new) THEN {}
  ELSE {[udata |-> w, filter |-> filter,
         flags |-> IF bit \in new THEN "EV_ADD" ELSE "EV_DELETE"]}

\* C18: watch_update of the kqueue file builds one change for each filter
\* whose bit differs between the recorded and the requested mask, EV_ADD
\* for a bit turned on and EV_DELETE for a bit turned off, and none for the
\* other filters; the change list is handed to one kevent call; with equal
\* masks the registration stays, and when the call succeeds the kernel
\* holds the requested filters.
C18_KqueueEncoding ==
  [][\A w \in Watch, events \in MHD_WatchEvent, fail \in 0..2 :
       (backend = "kqueue" /\ watch_update_call(w, events, fail)) =>
         LET old == RecordedMask(watch[w])
             changes == kqueue_change_set(watch[w], w, events)
             expected == FilterChange(w, old, events, "MHD_WATCH_IN", "EVFILT_READ")
                         \cup FilterChange(w, old, events, "MHD_WATCH_OUT", "EVFILT_WRITE")
         IN /\ {changes[i] : i \in DOMAIN changes} = expected
            /\ Len(changes) = Cardinality(expected)
            /\ old = events => kernel' = kernel
            /\ (fail = 0 /\ InStep(w)) =>
                 kernel'.reg[w] =
                   (IF "MHD_WATCH_IN" \in events THEN {"EVFILT_READ"} ELSE {}) \cup
                   (IF "MHD_WATCH_OUT" \in events THEN {"EVFILT_WRITE"} ELSE {})]_vars

\* kqueue: inside its OUT callback a watch is recorded and registered for
\* READ alone, so the WRITE filter has been deleted and the READ filter added
C18_Witness ==
  /\ backend = "kqueue"
  /\ injected = 0
  /\ cb.kind = "watch"
  /\ cb.ev = "MHD_WATCH_OUT"
  /\ LiveWatch(cb.id)
  /\ watch[cb.id].enable_read = 1
  /\ watch[cb.id].enable_write = 0
  /\ kernel.reg[cb.id] = {"EVFILT_READ"}

\* C19: timeout_free(t) completes, releases t and takes it off the list,
\* and leaves every other live timeout allocated with its trigger instant.
C19_FreeRemovesExactlyOne ==
  [][\A t \in Timeout :
       timeout_free_call(t) =>
         /\ pc' # "crashed"
         /\ timeout'[t].mem = "freed"
         /\ t \notin chain(timeout', em'.timeout_head, MaxTimeout + 1)
         /\ em'.timeout_tail # t
         /\ \A u \in Timeout \ {t} :
              LiveTimeout(u) => /\ timeout'[u].mem = "alloc"
                                /\ timeout'[u].trigger_time = timeout[u].trigger_time]_vars

\* C20: while no backend change call has failed, the flag a watch callback
\* is invoked with is in the mask the watch records at that moment.
C20_CallbackWithinInterest ==
  [][(injected = 0 /\ AtLiveEvent /\ cb'.kind = "watch") =>
       cb'.ev \in RecordedMask(watch[cb'.id])]_vars

\* C21: the sweep never reads a released timeout: whatever the callbacks
\* pass to timeout_free, every timeout the cursor of the sweep stands on or
\* can still reach is allocated, and so is the head the sweep starts from.
C21_SweepReadsNoFreedTimeout ==
  /\ [](pc = "sweep" =>
          \A t \in chain(timeout, frame.timeout, MaxTimeout + 1) : LiveTimeout(t))
  /\ []((pc \in {"top", "wait"} /\ em.timeout_head # NULL) => LiveTimeout(em.timeout_head))
  /\ [][pc = "sweep" => pc' # "crashed" \/ cb.kind = "timeout"]_vars

\* the timeout whose callback the sweep is inside of was released by it
C21_Witness ==
  /\ pc = "sweep"
  /\ cb.kind = "timeout"
  /\ timeout[cb.id].mem = "freed"

\* the orphan list as the sequence of next from w
RECURSIVE orphan_seq(_, _, _)
orphan_seq(wt, w, fuel) ==
  IF w = NULL \/ fuel = 0 THEN <<>>
  ELSE <<w>> \o orphan_seq(wt, wt[w].next, fuel - 1)

Tombstoned == {w \in Watch : watch[w].mem = "alloc" /\ watch[w].deleted = 1}

\* C22: the orphan list ends at NULL without passing a watch twice, holds
\* exactly the watches that are tombstoned and not yet released, so never a
\* live nor a released one; the reap releases every watch of the list and
\* nothing else, and leaves the list empty.
C22_OrphanListWellFormed ==
  /\ [](LET q == orphan_seq(watch, em.orphaned_watches, MaxWatch + 1)
        IN /\ Len(q) <= MaxWatch
           /\ \A a, b \in DOMAIN q : a # b => q[a] # q[b]
           /\ {q[a] : a \in DOMAIN q} = Tombstoned
           /\ \A a \in DOMAIN q : watch[q[a]].next = IF a < Len(q) THEN q[a + 1] ELSE NULL)
  /\ [](\A w \in Watch : watch[w].mem # "alloc" => watch[w].next = NULL)
  /\ [][(pc = "reap" /\ pc' = "top") =>
          /\ em'.orphaned_watches = NULL
          /\ \A w \in Watch :
               IF w \in Tombstoned THEN watch'[w].mem = "freed" ELSE watch'[w] = watch[w]]_vars
  /\ [][\A w \in Watch : (watch[w].mem = "alloc" /\ watch'[w].mem = "freed") =>
          (pc = "reap" /\ w \in Tombstoned)]_vars
  /\ [][\A w \in Watch : watch[w].mem = "freed" => watch'[w].mem = "freed"]_vars

\* inside a watch callback with two watches on the orphan list
C22_Witness ==
  /\ pc = "dispatch"
  /\ cb.kind = "watch"
  /\ Cardinality(Tombstoned) = 2
  /\ Len(orphan_seq(watch, em.orphaned_watches, MaxWatch + 1)) = 2

\* C23: once event_manager_cleanup has released the manager the backend
\* handle init opened is closed.
C23_HandleClosedAtCleanup ==
  em_mem = "freed" => ~kernel.open

====
